---- MODULE Spec2Model ----
(***************************************************************************)
(* State-space search framework (src/fw) and its goal-oriented strategies  *)
(* (src/algorithms): GOBFS, GODFS, GOBestFirstSearch, GOAStar, GOIDDFS and *)
(* RandomOperatorPicker.                                                   *)
(*                                                                         *)
(* A problem domain is a finite set of configurations 0..NumConfs-1, a     *)
(* tuple of operators 1..NumOps, each a partial map on configurations, and *)
(* the one-dimensional Manhattan distance as difference evaluator.  A      *)
(* State object is the chain of nodes from its root to itself; each node   *)
(* carries the configuration and the operator applied on the parent (0,    *)
(* i.e. None, for a root).  The empty chain <<>> stands for None.          *)
(***************************************************************************)
EXTENDS Integers, Sequences, FiniteSets, TLC

\* ---------------------------------------------------------------- bounds
NumConfs == 4
NumOps == 2
MaxEdges == 3
MaxIncrement == 2
MaxDepthLimit == 4
MaxWalk == 4
BfsNumConfs == 5
MaxGrade == 2
MaxGiven == 3
MaxHeld == 2
MaxList == 3
MaxExpansions == 3

Confs == 0 .. (NumConfs - 1)
Ops == 1 .. NumOps

VARIABLES
    operators,          \* StateSpace._operators: op -> partial map on Confs
    initial_state,      \* StateSpace._initial_state
    goal_state,         \* GoalOrientedStateSpace._goal_state
    algo,               \* class of the algorithm instance
    minimize_accesses,  \* GoalOrientedBlindAlgorithm._minimize_accesses
    depth_increment,    \* GOIDDFS._depth_increment (0: not a GOIDDFS)
    fringe,             \* FringeBasedAlgorithm._fringe
    closed,             \* FringeBasedAlgorithm._closed
    pc,                 \* position of solve()
    current_state,      \* local current_state of solve()
    final_state,        \* SolutionSuccess._final_state
    current_depth,      \* local current_depth of GOIDDFS.solve
    deeper_nodes,       \* local deeper_nodes of GOIDDFS.solve
    number_of_seen,     \* RandomOperatorPicker._number_of_seen
    applied,            \* number of operator applications made so far
    applying,           \* the operator handed to State.apply (0: None)
    shuffle_grade,      \* StateSpaceShuffle._shuffle_grade
    outer_iterations,   \* outer iterations of GOIDDFS.solve begun so far
    argument,           \* the argument of the last direct call of a method
    returned            \* the value that call returned

vars == <<operators, initial_state, goal_state, algo, minimize_accesses,
          depth_increment, fringe, closed, pc, current_state, final_state,
          current_depth, deeper_nodes, number_of_seen, applied, applying,
          shuffle_grade, outer_iterations, argument, returned>>

\* ------------------------------------------------------------ State class
None == <<>>

Root(c) == << [conf |-> c, op |-> 0] >>

Conf(s) == s[Len(s)].conf

parent_state(s) == SubSeq(s, 1, Len(s) - 1)

applied_operator(s) == s[Len(s)].op

Reverse(q) == [i \in 1 .. Len(q) |-> q[Len(q) + 1 - i]]

RECURSIVE OperatorsWalk(_)
OperatorsWalk(s) ==
    IF parent_state(s) = None THEN <<>>
    ELSE <<applied_operator(s)>> \o OperatorsWalk(parent_state(s))

\* faulty variant: the collected operators are not reversed
operators_sequence_unreversed(s) == OperatorsWalk(s)

operators_sequence(s) == Reverse(OperatorsWalk(s))

RECURSIVE AncestorsWalk(_)
AncestorsWalk(s) ==
    IF parent_state(s) = None THEN <<s>>
    ELSE <<s>> \o AncestorsWalk(parent_state(s))

parents_sequence(s) == Reverse(AncestorsWalk(s))

\* --------------------------------------------------------- Operator class
can_be_applied_on(o, s) == Conf(s) \in DOMAIN operators[o]

apply_on(o, s) == Append(s, [conf |-> operators[o][Conf(s)], op |-> o])

can_be_applied(s, o) == can_be_applied_on(o, s)

\* State.apply: the exception raised ("": none) and the value returned
\* faulty variant: an inapplicable operator silently returns the receiver
apply_outcome_silent(s, o) ==
    [raised |-> "",
     returned |-> IF can_be_applied(s, o) THEN apply_on(o, s) ELSE s]

apply_outcome(s, o) ==
    IF can_be_applied(s, o)
    THEN [raised |-> "", returned |-> apply_on(o, s)]
    ELSE [raised |-> "OperatorApplicationError", returned |-> None]

\* the state returned by State.apply
apply(s, o) == apply_outcome(s, o).returned

RECURSIVE FilterOps(_, _)
FilterOps(s, ops) ==
    IF ops = <<>> THEN <<>>
    ELSE (IF can_be_applied(s, Head(ops)) THEN <<Head(ops)>> ELSE <<>>)
         \o FilterOps(s, Tail(ops))

\* faulty variant: the applicable operators come out in reverse order
filter_applicable_reversed(s, ops) == Reverse(FilterOps(s, ops))

filter_applicable(s, ops) == FilterOps(s, ops)

apply_all(s, ops) ==
    LET app == filter_applicable(s, ops)
    IN  [i \in 1 .. Len(app) |-> apply(s, app[i])]

\* ------------------------------------------------ DifferenceEvaluator
Abs(x) == IF x < 0 THEN -x ELSE x

evaluate_difference(s1, s2) == Abs(Conf(s2) - Conf(s1))

\* faulty variant: the two states are the same object
are_the_same_identity(s1, s2) == s1 = s2

are_the_same(s1, s2) == evaluate_difference(s1, s2) = 0

\* ------------------------------------------------------------ StateSpace
all_operators == [i \in 1 .. NumOps |-> i]

difference_from_goal(s) == evaluate_difference(s, goal_state)

\* faulty variant: the check before the loop never succeeds
init_goal_equality_never == FALSE

init_goal_equality == are_the_same(initial_state, goal_state)

\* -------------------------------------------------- FringeBasedAlgorithm
\* faulty variant: the container is searched for the very same object
_is_in_identity(state, container) ==
    \E i \in 1 .. Len(container) : container[i] = state

_is_in(state, container) ==
    \E i \in 1 .. Len(container) : are_the_same(container[i], state)

is_in_fringe(f, state) == _is_in(state, f)

\* faulty variants: nothing is ever found in the closed set; only the
\* last closed state is looked at; the states are compared by identity
\* instead of by the evaluator
is_in_closed_never(c, state) == FALSE

is_in_closed_last_only(c, state) ==
    c # <<>> /\ are_the_same(c[Len(c)], state)

is_in_closed_identity(c, state) == \E i \in 1 .. Len(c) : c[i] = state

is_in_closed(c, state) == _is_in(state, c)

add_to_fringe(f, state) == Append(f, state)

\* faulty variant: appends without looking for an equal state
safe_add_to_fringe_unchecked(f, state) == Append(f, state)

safe_add_to_fringe(f, state) ==
    IF ~ is_in_fringe(f, state) THEN Append(f, state) ELSE f

add_all_to_fringe(f, states) == f \o states

\* faulty variant: leaves the loop after the first state
safe_add_all_to_fringe_first_only(f, states) ==
    IF states = <<>> THEN f ELSE safe_add_to_fringe(f, Head(states))

RECURSIVE safe_add_all_to_fringe(_, _)
safe_add_all_to_fringe(f, states) ==
    IF states = <<>> THEN f
    ELSE safe_add_all_to_fringe(safe_add_to_fringe(f, Head(states)),
                                Tail(states))

\* faulty variant: appends only a state that has no equal in the list
add_to_closed_checked(c, state) ==
    IF ~ is_in_closed(c, state) THEN Append(c, state) ELSE c

add_to_closed(c, state) == Append(c, state)

\* faulty variant: the state is not recorded
safe_add_to_closed_dropped(c, state) == c

safe_add_to_closed(c, state) ==
    IF ~ is_in_closed(c, state) THEN Append(c, state) ELSE c

has_any_in_fringe == Len(fringe) > 0

\* faulty variant: the element behind the popped one is lost with it
ListPop_drops_two(f, i) ==
    [elem |-> f[i + 1],
     rest |-> SubSeq(f, 1, i) \o SubSeq(f, i + 3, Len(f))]

\* list.pop(i) with a 0-based index i: the element and the remaining list
ListPop(f, i) ==
    [elem |-> f[i + 1],
     rest |-> SubSeq(f, 1, i) \o SubSeq(f, i + 2, Len(f))]

\* ------------------------------------------------- selection policies
\* All indices below are Python's 0-based ones; f[k + 1] is Python's f[k].
\* faulty variants: fringe[0] read but not removed; pop() instead of
\* pop(0); pop(1) where there is a second element
GOBFS_next_from_fringe_peek(f) == [elem |-> f[1], rest |-> f]

GOBFS_next_from_fringe_second(f) == ListPop(f, IF Len(f) > 1 THEN 1 ELSE 0)

GOBFS_next_from_fringe_back(f) == ListPop(f, Len(f) - 1)

GOBFS_next_from_fringe(f) == ListPop(f, 0)

\* faulty variant: pop(0) instead of pop()
GODFS_next_from_fringe_front(f) == ListPop(f, 0)

GODFS_next_from_fringe(f) == ListPop(f, Len(f) - 1)

GOIDDFS_next_from_fringe(f) == ListPop(f, Len(f) - 1)

\* the loop "for index, state in enumerate(self.fringe[1:])": index runs
\* over 0 .. len-2 and state is fringe[index + 1]
RECURSIVE BestFirstScan(_, _, _, _)
BestFirstScan(f, lowest_val, index, lowest_state) ==
    IF index > Len(f) - 2 THEN lowest_state
    ELSE BestFirstScan(f, lowest_val, index + 1,
            IF difference_from_goal(f[index + 2]) < lowest_val
            THEN index ELSE lowest_state)

GOBestFirstSearch_next_from_fringe(f) ==
    ListPop(f, BestFirstScan(f, difference_from_goal(f[1]), 0, 0))

_further_state_evaluation(state) ==
    difference_from_goal(state) + Len(parents_sequence(state))

RECURSIVE AStarScan(_, _, _, _)
AStarScan(f, lowest_val, index, lowest_state) ==
    IF index > Len(f) - 2 THEN lowest_state
    ELSE AStarScan(f, lowest_val, index + 1,
            IF _further_state_evaluation(f[index + 2]) <= lowest_val
            THEN index ELSE lowest_state)

\* faulty variant: pop() of the last element
GOAStar_next_from_fringe_last(f) == ListPop(f, Len(f) - 1)

GOAStar_next_from_fringe(f) ==
    ListPop(f, AStarScan(f, _further_state_evaluation(f[1]), 0, 0))

BlindAlgos == {"GOBFS", "GODFS", "GOBestFirstSearch", "GOAStar"}

FringeAlgos == BlindAlgos \cup {"GOIDDFS"}

Algos == FringeAlgos \cup {"RandomOperatorPicker"}

next_from_fringe(a, f) ==
    CASE a = "GOBFS" -> GOBFS_next_from_fringe(f)
      [] a = "GODFS" -> GODFS_next_from_fringe(f)
      [] a = "GOBestFirstSearch" -> GOBestFirstSearch_next_from_fringe(f)
      [] a = "GOAStar" -> GOAStar_next_from_fringe(f)
      [] a = "GOIDDFS" -> GOIDDFS_next_from_fringe(f)

\* ------------------------------------------------------ problem domains
\* Operator tables over the configurations 0..n-1 with at most e defined
\* entries (an entry: operator o is applicable on c and maps it to t).
PairSets(n, e) ==
    {Q \in SUBSET (Ops \X (0 .. (n - 1))) : Cardinality(Q) <= e}

TableOfFn(f) ==
    [o \in Ops |->
        [c \in {p[2] : p \in {q \in DOMAIN f : q[1] = o}} |-> f[<<o, c>>]]]

Tables(n, e) ==
    UNION {{TableOfFn(f) : f \in [Q -> 0 .. (n - 1)]} : Q \in PairSets(n, e)}

Successors(tab, S) ==
    {tab[o][c] : <<o, c>> \in {p \in Ops \X S : p[2] \in DOMAIN tab[p[1]]}}

RECURSIVE ReachableFrom(_, _)
ReachableFrom(tab, S) ==
    LET T == S \cup Successors(tab, S)
    IN  IF T = S THEN S ELSE ReachableFrom(tab, T)

\* An operator is only ever evaluated on configurations reachable from the
\* initial one: the tables are taken without entries elsewhere.
Trimmed(tab, c0) ==
    \A o \in Ops : DOMAIN tab[o] \subseteq ReachableFrom(tab, {c0})

\* ------------------------------------------------------------------ Init
\* Acyclic operator tables over 0..n-1: every operator maps a configuration
\* to a larger one.
ForwardMaps(n) ==
    {f \in UNION {[D -> 0 .. (n - 1)] : D \in SUBSET (0 .. (n - 2))} :
        \A c \in DOMAIN f : f[c] > c}

DagTables(n) == [Ops -> ForwardMaps(n)]

\* A state space over n configurations with one of the given operator
\* tables and initial configurations, and a freshly constructed algorithm
\* of one of the given classes.
InitOf(n, tabs, roots, algos) ==
    /\ initial_state \in {Root(c) : c \in roots}
    /\ operators \in {t \in tabs : Trimmed(t, Conf(initial_state))}
    /\ goal_state \in {Root(c) : c \in 0 .. (n - 1)}
    /\ algo \in algos
    /\ minimize_accesses = TRUE
    /\ depth_increment \in (IF algo = "GOIDDFS" THEN 1 .. MaxIncrement ELSE {0})
    /\ fringe = IF algo \in FringeAlgos \cup {"FringeBasedAlgorithm"}
                THEN <<initial_state>> ELSE <<>>
    /\ closed = <<>>
    /\ pc = "ready"
    /\ current_state = None
    /\ final_state = None
    /\ current_depth = 0
    /\ deeper_nodes = <<>>
    /\ number_of_seen = 0
    /\ applied = 0
    /\ applying = 0
    /\ shuffle_grade = 0
    /\ outer_iterations = 0
    /\ argument = <<>>
    /\ returned = <<>>

Init == InitOf(NumConfs, Tables(NumConfs, MaxEdges), Confs, Algos)

\* ------------------------------------- GoalOrientedBlindAlgorithm.solve
\* the check made before the loop
Blind_Begin ==
    /\ pc = "ready"
    /\ algo \in BlindAlgos
    /\ IF init_goal_equality
       THEN /\ pc' = "succeeded"
            /\ final_state' = initial_state
       ELSE /\ pc' = "running"
            /\ UNCHANGED final_state
    /\ UNCHANGED <<applying, shuffle_grade, outer_iterations, argument,
                   returned>>
    /\ UNCHANGED <<operators, initial_state, goal_state, algo,
                   minimize_accesses, depth_increment, fringe, closed,
                   current_state, current_depth, deeper_nodes,
                   number_of_seen, applied>>

\* faulty variant: the children are never compared with the goal
GoalIndices_none(children) == {}

GoalIndices_first_only(children) ==
    {i \in {1} : /\ i <= Len(children)
                 /\ difference_from_goal(children[i]) = 0}

GoalIndices(children) ==
    {i \in 1 .. Len(children) : difference_from_goal(children[i]) = 0}

\* faulty variants: the last goal child; the first child, goal or not
FirstGoal_last(children) ==
    children[CHOOSE i \in GoalIndices(children) :
                \A j \in GoalIndices(children) : i >= j]

FirstGoal_first_child(children) == children[1]

FirstGoal(children) ==
    children[CHOOSE i \in GoalIndices(children) :
                \A j \in GoalIndices(children) : i <= j]

\* one iteration of the while loop
Blind_Iterate ==
    /\ pc = "running"
    /\ algo \in BlindAlgos
    /\ has_any_in_fringe
    /\ minimize_accesses \/ Len(closed) < MaxExpansions
    /\ LET picked == next_from_fringe(algo, fringe)
           cur == picked.elem
           children == apply_all(cur, all_operators)
       IN  /\ current_state' = cur
           /\ IF minimize_accesses /\ is_in_closed(closed, cur)
              THEN /\ fringe' = picked.rest
                   /\ UNCHANGED <<closed, pc, final_state, applied>>
              ELSE /\ applied' = applied + Len(children)
                   /\ IF GoalIndices(children) # {}
                      THEN /\ pc' = "succeeded"
                           /\ final_state' = FirstGoal(children)
                           /\ fringe' = picked.rest
                           /\ UNCHANGED closed
                      ELSE /\ IF minimize_accesses
                              THEN /\ fringe' = safe_add_all_to_fringe(
                                                    picked.rest, children)
                                   /\ closed' = safe_add_to_closed(closed, cur)
                              ELSE /\ fringe' = add_all_to_fringe(
                                                    picked.rest, children)
                                   /\ closed' = add_to_closed(closed, cur)
                           /\ UNCHANGED <<pc, final_state>>
    /\ UNCHANGED <<applying, shuffle_grade, outer_iterations, argument,
                   returned>>
    /\ UNCHANGED <<operators, initial_state, goal_state, algo,
                   minimize_accesses, depth_increment, current_depth,
                   deeper_nodes, number_of_seen>>

\* the loop ended: raise SolutionFailure
Blind_Fail ==
    /\ pc = "running"
    /\ algo \in BlindAlgos
    /\ ~ has_any_in_fringe
    /\ pc' = "failed"
    /\ UNCHANGED <<applying, shuffle_grade, outer_iterations, argument,
                   returned>>
    /\ UNCHANGED <<operators, initial_state, goal_state, algo,
                   minimize_accesses, depth_increment, fringe, closed,
                   current_state, final_state, current_depth, deeper_nodes,
                   number_of_seen, applied>>

\* ---------------------------------------------------------- GOIDDFS.solve
\* the constructor's check of the depth increment
\* faulty variant: only negative increments are refused
depth_increment_accepted_zero(k) == ~ (k < 0)

depth_increment_accepted(k) == ~ (k < 1)

\* "the current state is on the edge of the limit"
\* faulty variants: the edge itself is still expanded; nothing is deferred
on_the_edge_beyond(state, depth) == Len(parents_sequence(state)) - 1 > depth

on_the_edge_never(state, depth) == FALSE

on_the_edge(state, depth) == Len(parents_sequence(state)) - 1 >= depth

\* faulty variant: the deferred states are cleared without being put back
IDDFS_Outer_forgets ==
    /\ pc \in {"ready", "outer"}
    /\ algo = "GOIDDFS"
    /\ current_depth + depth_increment <= MaxDepthLimit
    /\ outer_iterations' = outer_iterations + 1
    /\ current_depth' = current_depth + depth_increment
    /\ fringe' = fringe
    /\ deeper_nodes' = <<>>
    /\ pc' = "running"
    /\ UNCHANGED <<applying, shuffle_grade, argument, returned>>
    /\ UNCHANGED <<operators, initial_state, goal_state, algo,
                   minimize_accesses, depth_increment, closed, current_state,
                   final_state, number_of_seen, applied>>

\* faulty variant: the deferred states are put back without the test for
\* an equal state
IDDFS_Outer_extends ==
    /\ pc \in {"ready", "outer"}
    /\ algo = "GOIDDFS"
    /\ current_depth + depth_increment <= MaxDepthLimit
    /\ outer_iterations' = outer_iterations + 1
    /\ current_depth' = current_depth + depth_increment
    /\ fringe' = add_all_to_fringe(fringe, deeper_nodes)
    /\ deeper_nodes' = <<>>
    /\ pc' = "running"
    /\ UNCHANGED <<applying, shuffle_grade, argument, returned>>
    /\ UNCHANGED <<operators, initial_state, goal_state, algo,
                   minimize_accesses, depth_increment, closed, current_state,
                   final_state, number_of_seen, applied>>

\* head of an outer iteration: raise the limit, reseed the fringe
IDDFS_Outer ==
    /\ pc \in {"ready", "outer"}
    /\ algo = "GOIDDFS"
    /\ current_depth + depth_increment <= MaxDepthLimit
    /\ outer_iterations' = outer_iterations + 1
    /\ current_depth' = current_depth + depth_increment
    /\ fringe' = safe_add_all_to_fringe(fringe, deeper_nodes)
    /\ deeper_nodes' = <<>>
    /\ pc' = "running"
    /\ UNCHANGED <<applying, shuffle_grade, argument, returned>>
    /\ UNCHANGED <<operators, initial_state, goal_state, algo,
                   minimize_accesses, depth_increment, closed, current_state,
                   final_state, number_of_seen, applied>>

\* one iteration of the inner while loop
\* faulty variant: the goal is looked for among the generated children, as
\* in the base loop, instead of testing the dequeued state
IDDFS_Iterate_at_generation ==
    /\ pc = "running"
    /\ algo = "GOIDDFS"
    /\ has_any_in_fringe
    /\ LET picked == next_from_fringe(algo, fringe)
           cur == picked.elem
           children == apply_all(cur, all_operators)
       IN  /\ current_state' = cur
           /\ IF minimize_accesses /\ is_in_closed(closed, cur)
              THEN /\ fringe' = picked.rest
                   /\ UNCHANGED <<closed, pc, final_state, applied,
                                  deeper_nodes>>
              ELSE IF GoalIndices(children) # {}
              THEN /\ pc' = "succeeded"
                   /\ final_state' = FirstGoal(children)
                   /\ fringe' = picked.rest
                   /\ applied' = applied + Len(children)
                   /\ UNCHANGED <<closed, deeper_nodes>>
              ELSE /\ applied' = applied + Len(children)
                   /\ UNCHANGED <<pc, final_state>>
                   /\ IF on_the_edge(cur, current_depth)
                      THEN /\ deeper_nodes' = deeper_nodes \o children
                           /\ fringe' = picked.rest
                           /\ UNCHANGED closed
                      ELSE /\ fringe' = safe_add_all_to_fringe(
                                            picked.rest, children)
                           /\ closed' = safe_add_to_closed(closed, cur)
                           /\ UNCHANGED deeper_nodes
    /\ UNCHANGED <<applying, shuffle_grade, outer_iterations, argument,
                   returned>>
    /\ UNCHANGED <<operators, initial_state, goal_state, algo,
                   minimize_accesses, depth_increment, current_depth,
                   number_of_seen>>

IDDFS_Iterate ==
    /\ pc = "running"
    /\ algo = "GOIDDFS"
    /\ has_any_in_fringe
    /\ LET picked == next_from_fringe(algo, fringe)
           cur == picked.elem
           children == apply_all(cur, all_operators)
       IN  /\ current_state' = cur
           /\ IF minimize_accesses /\ is_in_closed(closed, cur)
              THEN /\ fringe' = picked.rest
                   /\ UNCHANGED <<closed, pc, final_state, applied,
                                  deeper_nodes>>
              ELSE IF difference_from_goal(cur) > 0
              THEN /\ applied' = applied + Len(children)
                   /\ UNCHANGED <<pc, final_state>>
                   /\ IF on_the_edge(cur, current_depth)
                      THEN /\ deeper_nodes' = deeper_nodes \o children
                           /\ fringe' = picked.rest
                           /\ UNCHANGED closed
                      ELSE IF minimize_accesses
                      THEN /\ fringe' = safe_add_all_to_fringe(
                                            picked.rest, children)
                           /\ closed' = safe_add_to_closed(closed, cur)
                           /\ UNCHANGED deeper_nodes
                      ELSE /\ fringe' = add_all_to_fringe(
                                            picked.rest, children)
                           /\ closed' = add_to_closed(closed, cur)
                           /\ UNCHANGED deeper_nodes
              ELSE /\ pc' = "succeeded"
                   /\ final_state' = cur
                   /\ fringe' = picked.rest
                   /\ UNCHANGED <<closed, applied, deeper_nodes>>
    /\ UNCHANGED <<applying, shuffle_grade, outer_iterations, argument,
                   returned>>
    /\ UNCHANGED <<operators, initial_state, goal_state, algo,
                   minimize_accesses, depth_increment, current_depth,
                   number_of_seen>>

\* the inner loop ended: back to the head of the outer loop
\* faulty variant: the raise of SolutionFailure after the inner loop is active
IDDFS_InnerDone_fails ==
    /\ pc = "running"
    /\ algo = "GOIDDFS"
    /\ ~ has_any_in_fringe
    /\ pc' = "failed"
    /\ UNCHANGED <<applying, shuffle_grade, outer_iterations, argument,
                   returned>>
    /\ UNCHANGED <<operators, initial_state, goal_state, algo,
                   minimize_accesses, depth_increment, fringe, closed,
                   current_state, final_state, current_depth, deeper_nodes,
                   number_of_seen, applied>>

IDDFS_InnerDone ==
    /\ pc = "running"
    /\ algo = "GOIDDFS"
    /\ ~ has_any_in_fringe
    /\ pc' = "outer"
    /\ UNCHANGED <<applying, shuffle_grade, outer_iterations, argument,
                   returned>>
    /\ UNCHANGED <<operators, initial_state, goal_state, algo,
                   minimize_accesses, depth_increment, fringe, closed,
                   current_state, final_state, current_depth, deeper_nodes,
                   number_of_seen, applied>>

\* --------------------------------------------- RandomOperatorPicker.solve
Random_Begin ==
    /\ pc = "ready"
    /\ algo = "RandomOperatorPicker"
    /\ current_state' = initial_state
    /\ pc' = "running"
    /\ UNCHANGED <<applying, shuffle_grade, outer_iterations, argument,
                   returned>>
    /\ UNCHANGED <<operators, initial_state, goal_state, algo,
                   minimize_accesses, depth_increment, fringe, closed,
                   final_state, current_depth, deeper_nodes, number_of_seen,
                   applied>>

\* faulty variant: a state with no applicable operator ends the run with
\* SolutionFailure
Random_Step_fails_in_dead_end ==
    /\ pc = "running"
    /\ algo = "RandomOperatorPicker"
    /\ difference_from_goal(current_state) > 0
    /\ Len(current_state) <= MaxWalk
    /\ LET applicable_operators ==
               filter_applicable(current_state, all_operators)
       IN  /\ number_of_seen' = number_of_seen + Len(applicable_operators)
           /\ IF applicable_operators = <<>>
              THEN /\ pc' = "failed"
                   /\ UNCHANGED <<current_state, applied, applying>>
              ELSE /\ \E k \in 1 .. Len(applicable_operators) :
                        /\ applying' = applicable_operators[k]
                        /\ current_state' =
                            apply(current_state, applicable_operators[k])
                   /\ applied' = applied + 1
                   /\ UNCHANGED pc
    /\ UNCHANGED <<shuffle_grade, outer_iterations, argument, returned>>
    /\ UNCHANGED <<operators, initial_state, goal_state, algo,
                   minimize_accesses, depth_increment, fringe, closed,
                   final_state, current_depth, deeper_nodes>>

\* faulty variant: the statistic counts the iterations, not the operators
Random_Step_counts_iterations ==
    /\ pc = "running"
    /\ algo = "RandomOperatorPicker"
    /\ difference_from_goal(current_state) > 0
    /\ Len(current_state) <= MaxWalk
    /\ LET applicable_operators ==
               filter_applicable(current_state, all_operators)
       IN  /\ number_of_seen' = number_of_seen + 1
           /\ IF applicable_operators = <<>>
              THEN /\ pc' = "error"
                   /\ UNCHANGED <<current_state, applied, applying>>
              ELSE /\ \E k \in 1 .. Len(applicable_operators) :
                        /\ applying' = applicable_operators[k]
                        /\ current_state' =
                            apply(current_state, applicable_operators[k])
                   /\ applied' = applied + 1
                   /\ UNCHANGED pc
    /\ UNCHANGED <<shuffle_grade, outer_iterations, argument, returned>>
    /\ UNCHANGED <<operators, initial_state, goal_state, algo,
                   minimize_accesses, depth_increment, fringe, closed,
                   final_state, current_depth, deeper_nodes>>

\* one iteration of the while loop; choice() of an empty tuple raises
Random_Step ==
    /\ pc = "running"
    /\ algo = "RandomOperatorPicker"
    /\ difference_from_goal(current_state) > 0
    /\ Len(current_state) <= MaxWalk
    /\ LET applicable_operators ==
               filter_applicable(current_state, all_operators)
       IN  /\ number_of_seen' = number_of_seen + Len(applicable_operators)
           /\ IF applicable_operators = <<>>
              THEN /\ pc' = "error"
                   /\ UNCHANGED <<current_state, applied, applying>>
              ELSE /\ \E k \in 1 .. Len(applicable_operators) :
                        /\ applying' = applicable_operators[k]
                        /\ current_state' =
                            apply(current_state, applicable_operators[k])
                   /\ applied' = applied + 1
                   /\ UNCHANGED pc
    /\ UNCHANGED <<shuffle_grade, outer_iterations, argument, returned>>
    /\ UNCHANGED <<operators, initial_state, goal_state, algo,
                   minimize_accesses, depth_increment, fringe, closed,
                   final_state, current_depth, deeper_nodes>>

\* the loop ended: raise SolutionSuccess
Random_Success ==
    /\ pc = "running"
    /\ algo = "RandomOperatorPicker"
    /\ ~ (difference_from_goal(current_state) > 0)
    /\ pc' = "succeeded"
    /\ final_state' = current_state
    /\ UNCHANGED <<applying, shuffle_grade, outer_iterations, argument,
                   returned>>
    /\ UNCHANGED <<operators, initial_state, goal_state, algo,
                   minimize_accesses, depth_increment, fringe, closed,
                   current_state, current_depth, deeper_nodes,
                   number_of_seen, applied>>

\* ----------------------------------------------------- the constructors
\* the values a caller may hand to the constructors, invalid ones included
CtorIncrements == (-1) .. MaxIncrement

CtorGrades == (-1) .. MaxGrade

\* GOIDDFS.__init__: the base constructors seed the fringe, then the
\* increment is checked
GOIDDFS_init ==
    /\ pc = "new"
    /\ algo = "GOIDDFS"
    /\ fringe' = <<initial_state>>
    /\ closed' = <<>>
    /\ minimize_accesses' = TRUE
    /\ pc' = IF depth_increment_accepted(depth_increment)
             THEN "ready" ELSE "exception"
    /\ UNCHANGED <<applying, shuffle_grade, outer_iterations, argument,
                   returned>>
    /\ UNCHANGED <<operators, initial_state, goal_state, algo,
                   depth_increment, current_state, final_state,
                   current_depth, deeper_nodes, number_of_seen, applied>>

\* faulty variant: the grade is not checked
shuffle_grade_accepted_any(g) == TRUE

shuffle_grade_accepted(g) == ~ (g < 0)

\* StateSpaceShuffle.__init__
StateSpaceShuffle_init ==
    /\ pc = "new"
    /\ algo = "StateSpaceShuffle"
    /\ pc' = IF shuffle_grade_accepted(shuffle_grade)
             THEN "ready" ELSE "exception"
    /\ UNCHANGED <<applying, shuffle_grade, outer_iterations, argument,
                   returned>>
    /\ UNCHANGED <<operators, initial_state, goal_state, algo,
                   minimize_accesses, depth_increment, fringe, closed,
                   current_state, final_state, current_depth, deeper_nodes,
                   number_of_seen, applied>>

\* ------------------------------------------- StateSpaceShuffle.shuffle
\* the randomization starts from the goal
Shuffle_Begin ==
    /\ pc = "ready"
    /\ algo = "StateSpaceShuffle"
    /\ current_state' = goal_state
    /\ pc' = "shuffling"
    /\ UNCHANGED <<applying, shuffle_grade, outer_iterations, argument,
                   returned>>
    /\ UNCHANGED <<operators, initial_state, goal_state, algo,
                   minimize_accesses, depth_increment, fringe, closed,
                   final_state, current_depth, deeper_nodes, number_of_seen,
                   applied>>

\* one iteration of "for _ in range(self.shuffle_grade)"; applied counts
\* the iterations made; choice() of an empty tuple raises
Shuffle_Step ==
    /\ pc = "shuffling"
    /\ algo = "StateSpaceShuffle"
    /\ applied < shuffle_grade
    /\ LET applicable_ops == filter_applicable(current_state, all_operators)
       IN  IF applicable_ops = <<>>
           THEN /\ pc' = "error"
                /\ UNCHANGED <<current_state, applied, applying>>
           ELSE /\ \E k \in 1 .. Len(applicable_ops) :
                     /\ applying' = applicable_ops[k]
                     /\ current_state' = apply(current_state, applicable_ops[k])
                /\ applied' = applied + 1
                /\ UNCHANGED pc
    /\ UNCHANGED <<shuffle_grade, outer_iterations, argument, returned>>
    /\ UNCHANGED <<operators, initial_state, goal_state, algo,
                   minimize_accesses, depth_increment, fringe, closed,
                   final_state, current_depth, deeper_nodes, number_of_seen>>

\* faulty variant: the state the walk started from is returned
Shuffle_Return_walk_start ==
    /\ pc = "shuffling"
    /\ algo = "StateSpaceShuffle"
    /\ ~ (applied < shuffle_grade)
    /\ current_state' = Root(Conf(goal_state))
    /\ initial_state' = Root(Conf(goal_state))
    /\ pc' = "shuffled"
    /\ UNCHANGED <<applying, shuffle_grade, outer_iterations, argument,
                   returned>>
    /\ UNCHANGED <<operators, goal_state, algo, minimize_accesses,
                   depth_increment, fringe, closed, final_state,
                   current_depth, deeper_nodes, number_of_seen, applied>>

\* faulty variant: only the parent is cleared, the applied operator stays
Shuffle_Return_keeps_operator ==
    /\ pc = "shuffling"
    /\ algo = "StateSpaceShuffle"
    /\ ~ (applied < shuffle_grade)
    /\ current_state' = << [conf |-> Conf(current_state),
                            op |-> applied_operator(current_state)] >>
    /\ initial_state' = current_state'
    /\ pc' = "shuffled"
    /\ UNCHANGED <<applying, shuffle_grade, outer_iterations, argument,
                   returned>>
    /\ UNCHANGED <<operators, goal_state, algo, minimize_accesses,
                   depth_increment, fringe, closed, final_state,
                   current_depth, deeper_nodes, number_of_seen, applied>>

\* the loop ended: the state reached is cut off from its path and becomes
\* the initial state of the state space returned
Shuffle_Return ==
    /\ pc = "shuffling"
    /\ algo = "StateSpaceShuffle"
    /\ ~ (applied < shuffle_grade)
    /\ current_state' = Root(Conf(current_state))
    /\ initial_state' = Root(Conf(current_state))
    /\ pc' = "shuffled"
    /\ UNCHANGED <<applying, shuffle_grade, outer_iterations, argument,
                   returned>>
    /\ UNCHANGED <<operators, goal_state, algo, minimize_accesses,
                   depth_increment, fringe, closed, final_state,
                   current_depth, deeper_nodes, number_of_seen, applied>>

\* ------------------------------ an algorithm on the shuffled state space
\* Algorithm.__init__ / FringeBasedAlgorithm.__init__ called with the state
\* space that shuffle() returned, as the problem modules do
Algorithm_init ==
    /\ pc = "shuffled"
    /\ algo = "StateSpaceShuffle"
    /\ \E a \in Algos :
         /\ algo' = a
         /\ depth_increment' \in
               (IF a = "GOIDDFS" THEN 1 .. MaxIncrement ELSE {0})
         /\ fringe' = IF a \in FringeAlgos THEN <<initial_state>> ELSE <<>>
    /\ closed' = <<>>
    /\ current_state' = None
    /\ applied' = 0
    /\ applying' = 0
    /\ pc' = "ready"
    /\ UNCHANGED <<shuffle_grade, outer_iterations, argument, returned>>
    /\ UNCHANGED <<operators, initial_state, goal_state, minimize_accesses,
                   final_state, current_depth, deeper_nodes, number_of_seen>>

\* ------------------------------------------------------------ State.apply
\* a caller applies any operator on the initial state, on the last
\* receiver or on the last state returned; pc tells how the call ended
State_apply ==
    /\ algo = "State"
    /\ \E receiver \in ({initial_state, current_state, final_state} \ {None}),
          o \in Ops :
          /\ Len(receiver) <= MaxWalk
          /\ current_state' = receiver
          /\ applying' = o
          /\ final_state' = apply_outcome(receiver, o).returned
          /\ pc' = IF apply_outcome(receiver, o).raised = ""
                   THEN "returned" ELSE apply_outcome(receiver, o).raised
    /\ UNCHANGED <<shuffle_grade, outer_iterations, argument, returned>>
    /\ UNCHANGED <<operators, initial_state, goal_state, algo,
                   minimize_accesses, depth_increment, fringe, closed,
                   current_depth, deeper_nodes, number_of_seen, applied>>

\* --------------------------- State.filter_applicable and State.apply_all
\* the operator collections a caller may give: any order, with repetitions
GivenOperators == UNION {[1 .. n -> Ops] : n \in 0 .. MaxGiven}

\* the states a caller holds: the initial one, the last receiver and the
\* children returned by the last apply_all
HeldStates ==
    ({initial_state, current_state}
        \cup (IF pc = "apply_all"
              THEN {returned[i] : i \in 1 .. Len(returned)} ELSE {}))
    \ {None}

State_filter_applicable ==
    /\ algo = "State"
    /\ \E receiver \in HeldStates, ops \in GivenOperators :
          /\ Len(receiver) <= MaxHeld
          /\ current_state' = receiver
          /\ argument' = ops
          /\ returned' = filter_applicable(receiver, ops)
    /\ pc' = "filter_applicable"
    /\ UNCHANGED <<applying, shuffle_grade, outer_iterations>>
    /\ UNCHANGED <<operators, initial_state, goal_state, algo,
                   minimize_accesses, depth_increment, fringe, closed,
                   final_state, current_depth, deeper_nodes, number_of_seen,
                   applied>>

State_apply_all ==
    /\ algo = "State"
    /\ \E receiver \in HeldStates, ops \in GivenOperators :
          /\ Len(receiver) <= MaxHeld
          /\ current_state' = receiver
          /\ argument' = ops
          /\ returned' = apply_all(receiver, ops)
    /\ pc' = "apply_all"
    /\ UNCHANGED <<applying, shuffle_grade, outer_iterations>>
    /\ UNCHANGED <<operators, initial_state, goal_state, algo,
                   minimize_accesses, depth_increment, fringe, closed,
                   final_state, current_depth, deeper_nodes, number_of_seen,
                   applied>>

\* ------------------------------- direct calls of the insertion methods
\* the states a caller may hand over: roots of the configurations the
\* initial state leads to, and the children of the initial state
GivenStates ==
    LET children == apply_all(initial_state, all_operators)
    IN  {initial_state}
        \cup {children[i] : i \in 1 .. Len(children)}
        \cup {Root(Conf(children[i])) : i \in 1 .. Len(children)}

Call_add_to_fringe ==
    /\ algo \in FringeAlgos \cup {"FringeBasedAlgorithm"}
    /\ Len(fringe) < MaxList
    /\ \E state \in GivenStates :
          /\ argument' = state
          /\ fringe' = add_to_fringe(fringe, state)
    /\ pc' = "add_to_fringe"
    /\ UNCHANGED <<applying, shuffle_grade, outer_iterations, returned>>
    /\ UNCHANGED <<operators, initial_state, goal_state, algo,
                   minimize_accesses, depth_increment, closed, current_state,
                   final_state, current_depth, deeper_nodes, number_of_seen,
                   applied>>

Call_safe_add_to_fringe ==
    /\ algo = "FringeBasedAlgorithm"
    /\ Len(fringe) <= MaxList
    /\ \E state \in GivenStates :
          /\ argument' = state
          /\ fringe' = safe_add_to_fringe(fringe, state)
    /\ pc' = "safe_add_to_fringe"
    /\ UNCHANGED <<applying, shuffle_grade, outer_iterations, returned>>
    /\ UNCHANGED <<operators, initial_state, goal_state, algo,
                   minimize_accesses, depth_increment, closed, current_state,
                   final_state, current_depth, deeper_nodes, number_of_seen,
                   applied>>

Call_add_to_closed ==
    /\ algo = "FringeBasedAlgorithm"
    /\ Len(closed) < MaxList
    /\ \E state \in GivenStates :
          /\ argument' = state
          /\ closed' = add_to_closed(closed, state)
    /\ pc' = "add_to_closed"
    /\ UNCHANGED <<applying, shuffle_grade, outer_iterations, returned>>
    /\ UNCHANGED <<operators, initial_state, goal_state, algo,
                   minimize_accesses, depth_increment, fringe, current_state,
                   final_state, current_depth, deeper_nodes, number_of_seen,
                   applied>>

Call_safe_add_to_closed ==
    /\ algo = "FringeBasedAlgorithm"
    /\ Len(closed) <= MaxList
    /\ \E state \in GivenStates :
          /\ argument' = state
          /\ closed' = safe_add_to_closed(closed, state)
    /\ pc' = "safe_add_to_closed"
    /\ UNCHANGED <<applying, shuffle_grade, outer_iterations, returned>>
    /\ UNCHANGED <<operators, initial_state, goal_state, algo,
                   minimize_accesses, depth_increment, fringe, current_state,
                   final_state, current_depth, deeper_nodes, number_of_seen,
                   applied>>

\* a caller asks whether a state is in the fringe, in the closed list
Call_is_in_fringe ==
    /\ algo = "FringeBasedAlgorithm"
    /\ \E state \in GivenStates :
          /\ argument' = state
          /\ returned' = <<is_in_fringe(fringe, state)>>
    /\ pc' = "is_in_fringe"
    /\ UNCHANGED <<applying, shuffle_grade, outer_iterations>>
    /\ UNCHANGED <<operators, initial_state, goal_state, algo,
                   minimize_accesses, depth_increment, fringe, closed,
                   current_state, final_state, current_depth, deeper_nodes,
                   number_of_seen, applied>>

Call_is_in_closed ==
    /\ algo = "FringeBasedAlgorithm"
    /\ \E state \in GivenStates :
          /\ argument' = state
          /\ returned' = <<is_in_closed(closed, state)>>
    /\ pc' = "is_in_closed"
    /\ UNCHANGED <<applying, shuffle_grade, outer_iterations>>
    /\ UNCHANGED <<operators, initial_state, goal_state, algo,
                   minimize_accesses, depth_increment, fringe, closed,
                   current_state, final_state, current_depth, deeper_nodes,
                   number_of_seen, applied>>

\* a caller reads the next_from_fringe property of a concrete strategy
Call_next_from_fringe ==
    /\ algo \in FringeAlgos
    /\ has_any_in_fringe
    /\ LET picked == next_from_fringe(algo, fringe)
       IN  /\ returned' = picked.elem
           /\ fringe' = picked.rest
    /\ pc' = "next_from_fringe"
    /\ UNCHANGED <<applying, shuffle_grade, outer_iterations, argument>>
    /\ UNCHANGED <<operators, initial_state, goal_state, algo,
                   minimize_accesses, depth_increment, closed, current_state,
                   final_state, current_depth, deeper_nodes, number_of_seen,
                   applied>>

\* ------------------------------------------------------------------ Next
Next ==
    \/ Blind_Begin
    \/ Blind_Iterate
    \/ Blind_Fail
    \/ IDDFS_Outer
    \/ IDDFS_Iterate
    \/ IDDFS_InnerDone
    \/ Random_Begin
    \/ Random_Step
    \/ Random_Success

Spec == Init /\ [][Next]_vars

\* breadth-first search alone, on larger state spaces
BfsInit == InitOf(BfsNumConfs, DagTables(BfsNumConfs), {0}, {"GOBFS"})

BlindNext ==
    \/ Blind_Begin
    \/ Blind_Iterate
    \/ Blind_Fail

BfsSpec == BfsInit /\ [][BlindNext]_vars

\* solve() is a sequential loop: a step that can be taken is taken
FairSpec == Spec /\ WF_vars(Next)

\* the four strategies of the base loop alone
BlindInit == InitOf(NumConfs, Tables(NumConfs, MaxEdges), Confs, BlindAlgos)

BlindFairSpec == BlindInit /\ [][BlindNext]_vars /\ WF_vars(BlindNext)

\* iterative deepening alone
IddfsInit == InitOf(NumConfs, Tables(NumConfs, MaxEdges), Confs, {"GOIDDFS"})

IddfsNext ==
    \/ IDDFS_Outer
    \/ IDDFS_Iterate
    \/ IDDFS_InnerDone

IddfsFairSpec == IddfsInit /\ [][IddfsNext]_vars /\ WF_vars(IddfsNext)

\* construction with caller-supplied parameters, followed by the run
CtorInit ==
    /\ algo \in {"GOIDDFS", "StateSpaceShuffle"}
    /\ goal_state \in {Root(c) : c \in Confs}
    /\ initial_state \in
          (IF algo = "GOIDDFS" THEN {Root(c) : c \in Confs} ELSE {None})
    /\ operators \in
          {t \in Tables(NumConfs, MaxEdges) :
              Trimmed(t, IF algo = "GOIDDFS" THEN Conf(initial_state)
                         ELSE Conf(goal_state))}
    /\ depth_increment \in (IF algo = "GOIDDFS" THEN CtorIncrements ELSE {0})
    /\ shuffle_grade \in (IF algo = "GOIDDFS" THEN {0} ELSE CtorGrades)
    /\ minimize_accesses = TRUE
    /\ fringe = <<>>
    /\ closed = <<>>
    /\ pc = "new"
    /\ current_state = None
    /\ final_state = None
    /\ current_depth = 0
    /\ deeper_nodes = <<>>
    /\ number_of_seen = 0
    /\ applied = 0
    /\ applying = 0
    /\ outer_iterations = 0
    /\ argument = <<>>
    /\ returned = <<>>

CtorNext ==
    \/ GOIDDFS_init
    \/ StateSpaceShuffle_init
    \/ IDDFS_Outer
    \/ IDDFS_Iterate
    \/ IDDFS_InnerDone
    \/ Shuffle_Begin
    \/ Shuffle_Step
    \/ Shuffle_Return

CtorSpec == CtorInit /\ [][CtorNext]_vars

\* a shuffle run from the goal, followed by a solve run of any algorithm
\* on the state space returned
ShuffledInit ==
    /\ algo = "StateSpaceShuffle"
    /\ goal_state \in {Root(c) : c \in Confs}
    /\ initial_state = None
    /\ operators \in
          {t \in Tables(NumConfs, MaxEdges) : Trimmed(t, Conf(goal_state))}
    /\ shuffle_grade \in 0 .. MaxGrade
    /\ depth_increment = 0
    /\ minimize_accesses = TRUE
    /\ fringe = <<>>
    /\ closed = <<>>
    /\ pc = "ready"
    /\ current_state = None
    /\ final_state = None
    /\ current_depth = 0
    /\ deeper_nodes = <<>>
    /\ number_of_seen = 0
    /\ applied = 0
    /\ applying = 0
    /\ outer_iterations = 0
    /\ argument = <<>>
    /\ returned = <<>>

ShuffledNext ==
    \/ Shuffle_Begin
    \/ Shuffle_Step
    \/ Shuffle_Return
    \/ Algorithm_init
    \/ Blind_Begin
    \/ Blind_Iterate
    \/ Blind_Fail
    \/ IDDFS_Outer
    \/ IDDFS_Iterate
    \/ IDDFS_InnerDone
    \/ Random_Begin
    \/ Random_Step
    \/ Random_Success

ShuffledSpec == ShuffledInit /\ [][ShuffledNext]_vars

\* the base loop of an algorithm constructed with minimize_accesses=False;
\* such a run need not end, its expansions are counted up to MaxExpansions
UnsafeInit ==
    /\ initial_state \in {Root(c) : c \in Confs}
    /\ operators \in
          {t \in Tables(NumConfs, MaxEdges) : Trimmed(t, Conf(initial_state))}
    /\ goal_state \in {Root(c) : c \in Confs}
    /\ algo \in BlindAlgos
    /\ minimize_accesses = FALSE
    /\ depth_increment = 0
    /\ fringe = <<initial_state>>
    /\ closed = <<>>
    /\ pc = "ready"
    /\ current_state = None
    /\ final_state = None
    /\ current_depth = 0
    /\ deeper_nodes = <<>>
    /\ number_of_seen = 0
    /\ applied = 0
    /\ applying = 0
    /\ shuffle_grade = 0
    /\ outer_iterations = 0
    /\ argument = <<>>
    /\ returned = <<>>

UnsafeSpec == UnsafeInit /\ [][BlindNext]_vars

\* calls that fill the fringe of an informed strategy with any states and
\* read its next_from_fringe
SelectInit ==
    InitOf(NumConfs, Tables(NumConfs, 2), {0},
           {"GOBestFirstSearch", "GOAStar"})

SelectNext ==
    \/ Call_add_to_fringe
    \/ Call_next_from_fringe

SelectSpec == SelectInit /\ [][SelectNext]_vars

\* calls that fill the fringe and the closed list with any states and ask
\* for membership (the goal plays no part in them)
MemberInit ==
    /\ InitOf(NumConfs, Tables(NumConfs, 2), {0}, {"FringeBasedAlgorithm"})
    /\ goal_state = initial_state

MemberNext ==
    \/ Call_add_to_fringe
    \/ Call_add_to_closed
    \/ Call_is_in_fringe
    \/ Call_is_in_closed

MemberSpec == MemberInit /\ [][MemberNext]_vars

\* calls of State.apply alone
ApplyInit == InitOf(NumConfs, Tables(NumConfs, MaxEdges), Confs, {"State"})

ApplySpec == ApplyInit /\ [][State_apply]_vars

\* calls of State.filter_applicable and State.apply_all alone (the goal
\* plays no part in them, nor does the choice of the initial configuration)
ExpandInit ==
    /\ InitOf(NumConfs, Tables(NumConfs, MaxEdges), {0}, {"State"})
    /\ goal_state = initial_state

ExpandNext ==
    \/ State_filter_applicable
    \/ State_apply_all

ExpandSpec == ExpandInit /\ [][ExpandNext]_vars

\* direct calls of the insertion methods of a fringe-based algorithm, on
\* state spaces with at most one applicable operator entry
InsertInit ==
    /\ InitOf(NumConfs, Tables(NumConfs, 1), {0}, {"FringeBasedAlgorithm"})
    /\ goal_state = initial_state

InsertNext ==
    \/ Call_add_to_fringe
    \/ Call_safe_add_to_fringe
    \/ Call_add_to_closed
    \/ Call_safe_add_to_closed

InsertSpec == InsertInit /\ [][InsertNext]_vars

\* ================================================================ claims
\* the operators of a solution, applied one after another from a state;
\* None when one of them is not applicable
RECURSIVE ReplayFrom(_, _)
ReplayFrom(s, ops) ==
    IF ops = <<>> THEN s
    ELSE IF ~ can_be_applied(s, Head(ops)) THEN None
    ELSE ReplayFrom(apply(s, Head(ops)), Tail(ops))

\* C1: whenever a strategy signals Success, the final state is at distance
\* zero from the goal, and its operators_sequence can be applied step by
\* step from the initial state and ends in a state equal to the final one.
C1_SuccessIsSolution ==
    pc = "succeeded" =>
        /\ difference_from_goal(final_state) = 0
        /\ LET r == ReplayFrom(initial_state, operators_sequence(final_state))
           IN  r # None /\ are_the_same(r, final_state)

C1_Witness ==
    /\ pc = "succeeded"
    /\ algo = "GOIDDFS"
    /\ Len(operators_sequence(final_state)) >= 2

\* the initial state is at distance zero from the goal
InitIsGoal == evaluate_difference(initial_state, goal_state) = 0

\* C2: with the initial state at zero distance from the goal, every
\* strategy ends Succeeded with the initial state, no operator having been
\* applied and nothing closed; it never ends otherwise.
C2_InitialGoal ==
    /\ [](InitIsGoal =>
            /\ applied = 0
            /\ closed = <<>>
            /\ pc \notin {"failed", "error"}
            /\ (pc = "succeeded" => final_state = initial_state))
    /\ (InitIsGoal ~> (pc = "succeeded"))

C2_Witness ==
    /\ InitIsGoal
    /\ pc = "succeeded"
    /\ algo = "GOIDDFS"
    /\ operators[1] # << >>

\* the least number of operator applications that lead from the initial
\* state to a state at distance zero from the goal
GoalConfs ==
    {c \in ReachableFrom(operators, {Conf(initial_state)}) :
        evaluate_difference(Root(c), goal_state) = 0}

RECURSIVE StepsToGoal(_, _)
StepsToGoal(S, k) ==
    IF S \cap GoalConfs # {} THEN k
    ELSE StepsToGoal(S \cup Successors(operators, S), k + 1)

MinGoalDepth == StepsToGoal({Conf(initial_state)}, 0)

\* C3: the solution returned by breadth-first search has the minimum
\* number of operators over all paths from the initial state to a state at
\* distance zero from the goal.
C3_BfsShortest ==
    (pc = "succeeded" /\ algo = "GOBFS") =>
        Len(operators_sequence(final_state)) = MinGoalDepth

C3_Witness ==
    /\ pc = "succeeded"
    /\ algo = "GOBFS"
    /\ Len(operators_sequence(final_state)) = 3
    /\ Len(closed) = 3

\* C4: on a finite state space BFS, DFS, Best-first and A* (duplicate
\* suppression on) always terminate, with Success or with Failure, and
\* the signal given is final.
C4_BlindTerminates ==
    /\ (algo \in BlindAlgos) ~> (pc \in {"succeeded", "failed"})
    /\ [][(algo \in BlindAlgos /\ pc \in {"succeeded", "failed"})
            => pc' = pc]_vars

C4_Witness ==
    /\ algo \in BlindAlgos
    /\ pc = "failed"
    /\ Len(closed) >= 3
    /\ applied >= 3

\* C5: Failure is signalled only with an empty fringe, when every state
\* reachable from the initial state has an equal state in the closed set
\* and none of them is at distance zero from the goal.
C5_FailureIsExhaustive ==
    pc = "failed" =>
        /\ fringe = <<>>
        /\ \A c \in ReachableFrom(operators, {Conf(initial_state)}) :
              /\ \E i \in 1 .. Len(closed) : are_the_same(closed[i], Root(c))
              /\ evaluate_difference(Root(c), goal_state) # 0

C5_Witness ==
    /\ pc = "failed"
    /\ algo = "GODFS"
    /\ Cardinality(ReachableFrom(operators, {Conf(initial_state)})) = 3

\* the step dequeues a state in the base loop (the dequeued state is
\* current_state'), and the fringe without the element at index i
BlindDequeue ==
    /\ pc = "running"
    /\ algo \in BlindAlgos
    /\ fringe # <<>>
    /\ current_state' # None
    /\ vars' # vars

RemoveAt(f, i) == SubSeq(f, 1, i - 1) \o SubSeq(f, i + 1, Len(f))

IsRestOf(r, f, s) == \E i \in 1 .. Len(f) : f[i] = s /\ r = RemoveAt(f, i)

GoalOps(s) ==
    {o \in Ops : can_be_applied(s, o) /\ difference_from_goal(apply(s, o)) = 0}

\* C6: an expansion in the base loop that produces a child at distance zero
\* ends the run Succeeded in that step with the first such child in
\* operator order; nothing is added to the fringe or to the closed set.
C6_GoalAtGeneration ==
    [][(BlindDequeue /\ ~ _is_in(current_state', closed)
            /\ GoalOps(current_state') # {})
        => /\ pc' = "succeeded"
           /\ \E o \in GoalOps(current_state') :
                /\ final_state' = apply(current_state', o)
                /\ \A o2 \in GoalOps(current_state') : o <= o2
           /\ IsRestOf(fringe', fringe, current_state')
           /\ closed' = closed]_vars

C6_Witness ==
    /\ pc = "succeeded"
    /\ algo \in BlindAlgos
    /\ current_state # None
    /\ Cardinality(GoalOps(current_state)) = 2
    /\ Len(current_state) >= 2

\* C7: Best-first removes from a non-empty fringe an element of minimum
\* goal-distance, the one at the lowest index among those of that minimum.
C7_BestFirstPicksMinimum ==
    [][(BlindDequeue /\ algo = "GOBestFirstSearch")
        => \E i \in 1 .. Len(fringe) :
              /\ current_state' = fringe[i]
              /\ \A j \in 1 .. Len(fringe) :
                    difference_from_goal(fringe[i])
                        <= difference_from_goal(fringe[j])
              /\ \A j \in 1 .. (i - 1) :
                    difference_from_goal(fringe[i])
                        < difference_from_goal(fringe[j])]_vars

\* the number of operator applications from the root
Depth(s) == Len(operators_sequence(s))

\* C8: A* removes from a non-empty fringe an element that minimises the
\* goal-distance plus the depth (the number of operators from the root).
C8_AStarPicksMinimum ==
    [][(BlindDequeue /\ algo = "GOAStar")
        => \E i \in 1 .. Len(fringe) :
              /\ current_state' = fringe[i]
              /\ \A j \in 1 .. Len(fringe) :
                    difference_from_goal(fringe[i]) + Depth(fringe[i])
                        <= difference_from_goal(fringe[j]) + Depth(fringe[j])]_vars

\* C9: in the base loop with duplicate suppression, a dequeued state equal
\* to a closed one is discarded: no operator is applied, the closed set is
\* unchanged and the fringe only loses the dequeued state.
C9_ClosedDiscard ==
    [][(BlindDequeue /\ minimize_accesses /\ _is_in(current_state', closed))
        => /\ applied' = applied
           /\ closed' = closed
           /\ IsRestOf(fringe', fringe, current_state')
           /\ pc' = pc
           /\ final_state' = final_state]_vars

C9_Witness ==
    /\ pc = "running"
    /\ algo \in BlindAlgos
    /\ current_state # None
    /\ \E i \in 1 .. Len(closed) :
          /\ are_the_same(closed[i], current_state)
          /\ closed[i] # current_state
    /\ filter_applicable(current_state, all_operators) # <<>>

\* the fringe after the children were offered to it one after another
RECURSIVE InsertEach(_, _)
InsertEach(f, kids) ==
    IF kids = <<>> THEN f
    ELSE InsertEach(
            IF \E i \in 1 .. Len(f) : Conf(f[i]) = Conf(Head(kids))
            THEN f ELSE f \o <<Head(kids)>>,
            Tail(kids))

\* C10: a goal-free expansion in the base loop with duplicate suppression
\* appends each child, in operator order, iff no equal state is in the
\* fringe at that moment, and adds the expanded state to the closed set.
C10_SuppressedInsert ==
    [][(BlindDequeue /\ minimize_accesses
            /\ ~ _is_in(current_state', closed)
            /\ GoalOps(current_state') = {})
        => /\ \E r \in {RemoveAt(fringe, i) : i \in 1 .. Len(fringe)} :
                /\ IsRestOf(r, fringe, current_state')
                /\ fringe' = InsertEach(r,
                                apply_all(current_state', all_operators))
           /\ closed' = closed \o <<current_state'>>
           /\ pc' = pc]_vars

C10_Witness ==
    /\ pc = "running"
    /\ algo \in BlindAlgos
    /\ closed # <<>>
    /\ current_state = closed[Len(closed)]
    /\ Len(filter_applicable(current_state, all_operators)) = 2
    /\ operators[1][Conf(current_state)] = operators[2][Conf(current_state)]
    /\ fringe # <<>>
    /\ fringe[Len(fringe)] = apply(current_state, 1)

\* the toy scenarios: the only applicable operator leads from the initial
\* configuration to one other configuration (an operator that is nowhere
\* applicable is as good as absent)
ToyOperators ==
    {o \in Ops :
        /\ DOMAIN operators[o] = {Conf(initial_state)}
        /\ operators[o][Conf(initial_state)] # Conf(initial_state)
        /\ \A p \in Ops \ {o} : DOMAIN operators[p] = {}}

ToyOperator == CHOOSE o \in ToyOperators : TRUE

ToyB == apply(initial_state, ToyOperator)

\* initial A, goal B, operator A->B
ToyTwoStates ==
    /\ ToyOperators # {}
    /\ Conf(goal_state) = Conf(ToyB)

\* C11: in the toy space (initial A, goal B, only operator A->B) BFS, DFS,
\* Best-first and A* end Succeeded with final state B, whose operator
\* sequence is [A->B], after exactly one expansion, that of A; they never
\* fail.
C11_ToyTwoStatesSucceeds ==
    /\ []((ToyTwoStates /\ algo \in BlindAlgos) =>
            /\ pc # "failed"
            /\ closed = <<>>
            /\ applied <= 1
            /\ (pc = "succeeded" =>
                    /\ final_state = ToyB
                    /\ operators_sequence(final_state) = <<ToyOperator>>
                    /\ current_state = initial_state
                    /\ applied = 1))
    /\ ((ToyTwoStates /\ algo \in BlindAlgos) ~> (pc = "succeeded"))

C11_Witness ==
    /\ ToyTwoStates
    /\ algo = "GOAStar"
    /\ pc = "succeeded"
    /\ final_state = ToyB

\* initial A, goal C, operator A->B
ToyUnreachable ==
    /\ ToyOperators # {}
    /\ Conf(goal_state) \notin {Conf(initial_state), Conf(ToyB)}

\* C12: in the unreachable-goal scenario (initial A, goal C, only operator
\* A->B) BFS, DFS, Best-first and A* expand A, hold the fringe [B], expand
\* B without children, find the fringe empty and end Failed; Success is
\* never signalled.
C12_ToyUnreachableFails ==
    /\ []((ToyUnreachable /\ algo \in BlindAlgos) =>
            /\ pc # "succeeded"
            /\ \/ /\ pc \in {"ready", "running"}
                  /\ fringe = <<initial_state>>
                  /\ closed = <<>>
                  /\ applied = 0
               \/ /\ pc = "running"
                  /\ current_state = initial_state
                  /\ fringe = <<ToyB>>
                  /\ closed = <<initial_state>>
                  /\ applied = 1
               \/ /\ pc \in {"running", "failed"}
                  /\ current_state = ToyB
                  /\ fringe = <<>>
                  /\ closed = <<initial_state, ToyB>>
                  /\ applied = 1)
    /\ ((ToyUnreachable /\ algo \in BlindAlgos) ~> (pc = "failed"))

C12_Witness ==
    /\ ToyUnreachable
    /\ algo = "GOBestFirstSearch"
    /\ pc = "failed"
    /\ closed = <<initial_state, ToyB>>

\* C13: the random walk has no terminal outcome when no state at distance
\* zero is reachable (as in the unreachable-goal scenario): it ends neither
\* with Success nor with Failure nor with an error.
C13_RandomWalkNeverEnds ==
    (algo = "RandomOperatorPicker" /\ GoalConfs = {}) =>
        pc \notin {"succeeded", "failed", "error"}

IddfsByOne ==
    /\ algo = "GOIDDFS"
    /\ depth_increment = 1
    /\ GoalConfs # {}
    /\ MinGoalDepth >= 1

\* C15: with depth_increment = 1 and the shallowest goal D >= 1 operator
\* applications from the initial state, GOIDDFS signals Success during
\* outer iteration D and in no other (with D = 3: in the third, never in
\* the first or second).
C15_IddfsFoundInIterationD ==
    /\ [](IddfsByOne =>
            /\ outer_iterations <= MinGoalDepth
            /\ (pc = "succeeded" =>
                    /\ outer_iterations = MinGoalDepth
                    /\ current_depth = MinGoalDepth
                    /\ Depth(final_state) = MinGoalDepth))
    /\ (IddfsByOne ~> (pc = "succeeded"))

C15_Witness ==
    /\ IddfsByOne
    /\ MinGoalDepth = 3
    /\ pc = "succeeded"
    /\ outer_iterations = 3

\* the step dequeues a state in the inner loop of GOIDDFS (the dequeued
\* state is current_state')
IddfsDequeue ==
    /\ pc = "running"
    /\ algo = "GOIDDFS"
    /\ fringe # <<>>
    /\ vars' # vars

IsPrefixOf(p, q) == Len(p) <= Len(q) /\ SubSeq(q, 1, Len(p)) = p

\* C16: in GOIDDFS a closed state stays closed, no state equal to it is
\* added to the closed set again, and every dequeued state equal to a
\* closed one is discarded (no operator applied, nothing deferred, nothing
\* closed), in the same and in every later outer iteration.
C16_IddfsClosedNotRevisited ==
    /\ [](algo = "GOIDDFS" =>
            \A i, j \in 1 .. Len(closed) :
                are_the_same(closed[i], closed[j]) => i = j)
    /\ [][algo = "GOIDDFS" => IsPrefixOf(closed, closed')]_vars
    /\ [][(IddfsDequeue /\ _is_in(current_state', closed))
            => /\ applied' = applied
               /\ closed' = closed
               /\ deeper_nodes' = deeper_nodes
               /\ IsRestOf(fringe', fringe, current_state')
               /\ pc' = pc
               /\ final_state' = final_state]_vars

C16_Witness ==
    /\ algo = "GOIDDFS"
    /\ pc = "running"
    /\ outer_iterations >= 2
    /\ current_state # None
    /\ Depth(current_state) >= 2
    /\ filter_applicable(current_state, all_operators) # <<>>
    /\ \E i \in 1 .. Len(closed) :
          /\ are_the_same(closed[i], current_state)
          /\ closed[i] # current_state

\* the children of a dequeued state that passes the closed test
ChildrenIfFresh(s) ==
    IF _is_in(s, closed) THEN <<>> ELSE apply_all(s, all_operators)

\* C17: in GOIDDFS the children of a dequeued non-goal state of depth >=
\* the current limit go to the deferred list only: the fringe just loses
\* the dequeued state and the closed set is unchanged; while the inner
\* loop runs the fringe holds states within the limit and the deferred
\* list states beyond it; the head of the next outer iteration offers the
\* deferred states to the fringe with duplicate suppression and leaves
\* the deferred list empty.
C17_IddfsDeferral ==
    /\ [][(IddfsDequeue /\ difference_from_goal(current_state') > 0
                /\ Depth(current_state') >= current_depth)
            => /\ IsRestOf(fringe', fringe, current_state')
               /\ closed' = closed
               /\ deeper_nodes' =
                      deeper_nodes \o ChildrenIfFresh(current_state')
               /\ pc' = pc]_vars
    /\ []((algo = "GOIDDFS" /\ pc = "running") =>
            /\ \A i \in 1 .. Len(fringe) : Depth(fringe[i]) <= current_depth
            /\ \A i \in 1 .. Len(deeper_nodes) :
                  Depth(deeper_nodes[i]) > current_depth)
    /\ [][(algo = "GOIDDFS" /\ pc \in {"ready", "outer"})
            => /\ fringe' = InsertEach(fringe, deeper_nodes)
               /\ deeper_nodes' = <<>>
               /\ closed' = closed]_vars

C17_Witness ==
    /\ algo = "GOIDDFS"
    /\ pc = "running"
    /\ outer_iterations >= 2
    /\ fringe # <<>>
    /\ current_state # None
    /\ Depth(current_state) >= current_depth
    /\ ~ _is_in(current_state, closed)
    /\ deeper_nodes = apply_all(current_state, all_operators)
    /\ Len(deeper_nodes) = 2

\* C18: GOIDDFS signals Success exactly in the step that removes a state
\* at distance zero from the fringe; the final state is that dequeued
\* state, which is not expanded (no operator applied, nothing added to the
\* fringe, the deferred list or the closed set).
C18_IddfsGoalAtRemoval ==
    /\ [][IddfsDequeue =>
            ((pc' = "succeeded") <=>
                (difference_from_goal(current_state') = 0))]_vars
    /\ [][(algo = "GOIDDFS" /\ pc # "succeeded" /\ pc' = "succeeded")
            => /\ IddfsDequeue
               /\ final_state' = current_state'
               /\ IsRestOf(fringe', fringe, final_state')
               /\ applied' = applied
               /\ closed' = closed
               /\ deeper_nodes' = deeper_nodes]_vars
    /\ []((algo = "GOIDDFS" /\ pc = "succeeded") =>
            /\ final_state = current_state
            /\ difference_from_goal(final_state) = 0)

C18_Witness ==
    /\ algo = "GOIDDFS"
    /\ pc = "succeeded"
    /\ final_state = current_state
    /\ Depth(final_state) >= 2
    /\ filter_applicable(final_state, all_operators) # <<>>

\* the parameter handed to the constructor is invalid
InvalidParameter ==
    \/ algo = "GOIDDFS" /\ depth_increment < 1
    \/ algo = "StateSpaceShuffle" /\ shuffle_grade < 0

\* C19: GOIDDFS with depth_increment < 1 and StateSpaceShuffle with a
\* negative grade are refused by the constructor and by nothing later: the
\* error is raised before any step of solve or shuffle, a constructed
\* object never raises it; with depth_increment = k >= 1 the depth limit
\* in the n-th outer iteration is n * k.
C19_RejectedAtConstruction ==
    /\ [][pc = "new" => ((pc' = "exception") <=> InvalidParameter)]_vars
    /\ [][pc' = "exception" => pc = "new"]_vars
    /\ [](pc = "exception" =>
            /\ outer_iterations = 0
            /\ applied = 0
            /\ current_state = None
            /\ closed = <<>>)
    /\ [](pc \notin {"new", "exception"} => ~ InvalidParameter)
    /\ [](algo = "GOIDDFS" =>
            /\ current_depth = outer_iterations * depth_increment
            /\ (pc = "running" => outer_iterations >= 1))

C19_Witness ==
    /\ pc = "exception"
    /\ algo = "GOIDDFS"
    /\ depth_increment = 0
    /\ fringe = <<initial_state>>
    /\ operators[1] # <<>>

\* C20: State.apply(operator) raises OperatorApplicationError iff the
\* operator's applicability test is false on the receiver, and then returns
\* no state; otherwise it returns a new state whose parent is the receiver
\* and whose applied operator is the given one.  Nothing else changes.
C20_ApplyRaisesIffInapplicable ==
    [][algo = "State" =>
        /\ IF Conf(current_state') \in DOMAIN operators[applying']
           THEN /\ pc' = "returned"
                /\ final_state' # None
                /\ parent_state(final_state') = current_state'
                /\ applied_operator(final_state') = applying'
                /\ Conf(final_state') =
                       operators[applying'][Conf(current_state')]
           ELSE /\ pc' = "OperatorApplicationError"
                /\ final_state' = None
        /\ UNCHANGED <<operators, initial_state, goal_state, fringe, closed>>
       ]_vars

C20_Witness ==
    /\ algo = "State"
    /\ pc = "OperatorApplicationError"
    /\ Len(current_state) >= 2
    /\ final_state = None
    /\ filter_applicable(current_state, all_operators) # <<>>

\* the positions of the given operators that are applicable on a state,
\* and the k-th of them in input order
ApplicablePositions(s, ops) ==
    {i \in 1 .. Len(ops) : Conf(s) \in DOMAIN operators[ops[i]]}

KthPosition(P, k) == CHOOSE i \in P : Cardinality({j \in P : j < i}) = k - 1

\* C21: filter_applicable returns exactly the given operators applicable
\* on the receiver, in input order; apply_all returns one child per
\* applicable operator in that order, each with the receiver as parent and
\* the receiver's ancestors as its own; the receiver is one of the states
\* held before and the state space is unchanged.
C21_FilterAndApplyAll ==
    [][algo = "State" =>
        LET P == ApplicablePositions(current_state', argument')
        IN  /\ Len(returned') = Cardinality(P)
            /\ pc' = "filter_applicable" =>
                  \A k \in 1 .. Len(returned') :
                      returned'[k] = argument'[KthPosition(P, k)]
            /\ pc' = "apply_all" =>
                  \A k \in 1 .. Len(returned') :
                      LET o == argument'[KthPosition(P, k)]
                      IN  /\ parent_state(returned'[k]) = current_state'
                          /\ applied_operator(returned'[k]) = o
                          /\ Conf(returned'[k]) =
                                 operators[o][Conf(current_state')]
                          /\ SubSeq(parents_sequence(returned'[k]), 1,
                                    Len(current_state'))
                                 = parents_sequence(current_state')
            /\ current_state' \in HeldStates
            /\ UNCHANGED <<operators, initial_state>>]_vars

C21_Witness ==
    /\ algo = "State"
    /\ pc = "apply_all"
    /\ Len(current_state) >= 2
    /\ argument = <<2, 1, 2>>
    /\ Len(returned) = 2
    /\ applied_operator(returned[1]) = 2
    /\ applied_operator(returned[2]) = 2

\* C22: a state reached from the root by N successful applications (the
\* random walk after N steps) has an operators_sequence of length N that
\* lists the operators in application order and a parents_sequence of
\* length N + 1 from the root to the state itself; re-applying the
\* operators_sequence to the root gives a state at distance zero from it.
C22_PathReconstruction ==
    /\ []((algo = "RandomOperatorPicker" /\ current_state # None) =>
            /\ Len(operators_sequence(current_state)) = applied
            /\ Len(parents_sequence(current_state)) = applied + 1
            /\ parents_sequence(current_state)[1] = initial_state
            /\ parents_sequence(current_state)[applied + 1] = current_state
            /\ LET r == ReplayFrom(initial_state,
                                   operators_sequence(current_state))
               IN  r # None /\ evaluate_difference(r, current_state) = 0)
    /\ [][(algo = "RandomOperatorPicker" /\ applied' = applied + 1)
            => /\ operators_sequence(current_state') =
                      Append(operators_sequence(current_state), applying')
               /\ parents_sequence(current_state') =
                      Append(parents_sequence(current_state), current_state')
           ]_vars

C22_Witness ==
    /\ algo = "RandomOperatorPicker"
    /\ applied = 3
    /\ operators_sequence(current_state) = <<2, 1, 2>>

\* C23: a safe_add_to_fringe (safe_add_to_closed) called right after a
\* safe_add_to_fringe (safe_add_to_closed) with the same or an
\* evaluator-equal state leaves the fringe (closed set) as the first call
\* left it, whatever it held before; after a safe insertion an equal state
\* is in the container.
C23_SafeInsertIdempotent ==
    /\ [][(pc = "safe_add_to_fringe" /\ pc' = "safe_add_to_fringe"
                /\ evaluate_difference(argument, argument') = 0)
            => fringe' = fringe]_vars
    /\ [][(pc = "safe_add_to_closed" /\ pc' = "safe_add_to_closed"
                /\ evaluate_difference(argument, argument') = 0)
            => closed' = closed]_vars
    /\ [](pc = "safe_add_to_fringe" =>
            \E i \in 1 .. Len(fringe) : Conf(fringe[i]) = Conf(argument))
    /\ [](pc = "safe_add_to_closed" =>
            \E i \in 1 .. Len(closed) : Conf(closed[i]) = Conf(argument))

C23_Witness ==
    /\ pc = "safe_add_to_closed"
    /\ Len(closed) = 2
    /\ Conf(closed[1]) = Conf(closed[2])
    /\ Conf(argument) = Conf(closed[1])
    /\ argument \notin {closed[1], closed[2]}

\* C24: GOBFS.next_from_fringe removes the front of the fringe, the state
\* that has been in it longest: the dequeued state is the first element
\* and the rest keeps its order, new states being appended behind it.
C24_BfsRemovesFront ==
    [][(BlindDequeue /\ algo = "GOBFS")
        => /\ current_state' = Head(fringe)
           /\ IsPrefixOf(Tail(fringe), fringe')]_vars

C24_Witness ==
    /\ algo = "GOBFS"
    /\ pc = "running"
    /\ current_state # None
    /\ Len(closed) >= 2
    /\ Len(fringe) >= 2
    /\ Len(filter_applicable(current_state, all_operators)) <= 1

\* C25: GODFS.next_from_fringe and GOIDDFS.next_from_fringe remove the
\* back of the fringe, the most recently inserted state still present:
\* the dequeued state is the last element and the elements before it stay.
C25_DfsRemovesBack ==
    [][((BlindDequeue /\ algo = "GODFS") \/ IddfsDequeue)
        => /\ current_state' = fringe[Len(fringe)]
           /\ IsPrefixOf(SubSeq(fringe, 1, Len(fringe) - 1), fringe')]_vars

C25_Witness ==
    /\ algo = "GODFS"
    /\ pc = "running"
    /\ current_state # None
    /\ Len(closed) >= 2
    /\ Len(fringe) >= 2
    /\ Len(filter_applicable(current_state, all_operators)) <= 1

\* the states a run holds, and with each of them its ancestors
RunStates ==
    LET held == ({fringe[i] : i \in 1 .. Len(fringe)}
                   \cup {closed[i] : i \in 1 .. Len(closed)}
                   \cup {deeper_nodes[i] : i \in 1 .. Len(deeper_nodes)}
                   \cup {initial_state, goal_state, current_state,
                         final_state}) \ {None}
    IN  UNION {{SubSeq(s, 1, k) : k \in 1 .. Len(s)} : s \in held}

\* C26: during a shuffle run and the solve run that follows, every state
\* has no parent exactly if it has no applied operator; its parent chain
\* is finite, each ancestor having a strictly shorter chain, so that no
\* state is its own ancestor; and the chain of every state in the fringe
\* or in the closed list starts at the initial state of the state space.
C26_ParentChains ==
    /\ \A s \in RunStates :
          /\ (parent_state(s) = None) <=> (applied_operator(s) = 0)
          /\ LET chain == parents_sequence(s)
             IN  /\ chain[Len(chain)] = s
                 /\ \A i, j \in 1 .. Len(chain) :
                       i # j => chain[i] # chain[j]
                 /\ \A i \in 2 .. Len(chain) :
                       parent_state(chain[i]) = chain[i - 1]
    /\ \A i \in 1 .. Len(fringe) :
          parents_sequence(fringe[i])[1] = initial_state
    /\ \A i \in 1 .. Len(closed) :
          parents_sequence(closed[i])[1] = initial_state

C26_Witness ==
    /\ algo \in FringeAlgos
    /\ shuffle_grade = MaxGrade
    /\ initial_state # goal_state
    /\ Len(closed) >= 2
    /\ \E i \in 1 .. Len(fringe) : Len(fringe[i]) >= 3

\* the number of operators applicable on a configuration, and its sum
\* over the states the walk has left behind
ApplicableCount(c) == Cardinality({o \in Ops : c \in DOMAIN operators[o]})

RECURSIVE SeenUpTo(_, _)
SeenUpTo(s, k) ==
    IF k = 0 THEN 0 ELSE ApplicableCount(s[k].conf) + SeenUpTo(s, k - 1)

\* C27: RandomOperatorPicker walks from the initial state; a step puts in
\* place of the current state its child by one applicable operator;
\* number_of_seen is the sum of the numbers of applicable operators of
\* the states stepped from (0 before any step); no state stepped from has
\* zero distance from the goal, and once the current state has, the only
\* thing that happens is SolutionSuccess with that state.
C27_RandomWalk ==
    /\ [](algo = "RandomOperatorPicker" =>
            /\ pc = "ready" => number_of_seen = 0
            /\ current_state # None =>
                 /\ current_state[1] = initial_state[1]
                 /\ number_of_seen
                      = SeenUpTo(current_state, Len(current_state) - 1)
                 /\ \A k \in 1 .. (Len(current_state) - 1) :
                       difference_from_goal(SubSeq(current_state, 1, k)) > 0
            /\ pc = "succeeded" =>
                 /\ final_state = current_state
                 /\ difference_from_goal(final_state) = 0)
    /\ [][(algo = "RandomOperatorPicker" /\ pc = "running") =>
            /\ current_state' # current_state =>
                 \E o \in Ops :
                    /\ can_be_applied(current_state, o)
                    /\ applying' = o
                    /\ parent_state(current_state') = current_state
                    /\ applied_operator(current_state') = o
                    /\ Conf(current_state')
                         = operators[o][Conf(current_state)]
            /\ difference_from_goal(current_state) = 0 =>
                 /\ pc' = "succeeded"
                 /\ final_state' = current_state]_vars

C27_Witness ==
    /\ algo = "RandomOperatorPicker"
    /\ pc = "succeeded"
    /\ Len(final_state) >= 3
    /\ number_of_seen > Len(final_state)

\* C28: on a fringe whose elements all have the same score, Best-first
\* (score: goal-distance) removes the element at index 0 and A* (score:
\* goal-distance plus length of the parent chain) removes the last element.
C28_TieBreaks ==
    [][BlindDequeue =>
        /\ (/\ algo = "GOBestFirstSearch"
            /\ \A i, j \in 1 .. Len(fringe) :
                  difference_from_goal(fringe[i])
                     = difference_from_goal(fringe[j]))
           => /\ current_state' = fringe[1]
              /\ IsPrefixOf(Tail(fringe), fringe')
        /\ (/\ algo = "GOAStar"
            /\ \A i, j \in 1 .. Len(fringe) :
                  _further_state_evaluation(fringe[i])
                     = _further_state_evaluation(fringe[j]))
           => /\ current_state' = fringe[Len(fringe)]
              /\ IsPrefixOf(SubSeq(fringe, 1, Len(fringe) - 1), fringe')]_vars

\* C29: a fringe-based algorithm that has just been constructed holds the
\* initial state as its only fringe element and nothing in the closed
\* list; no step removes or reorders closed states (IDDFS outer iterations
\* included); the fringe loses a state only in a step that dequeues, and
\* then exactly one, the state next_from_fringe selected.
C29_FringeAndClosedLifecycle ==
    /\ []((pc = "ready" /\ algo \in FringeAlgos)
            => (fringe = <<initial_state>> /\ closed = <<>>))
    /\ [][/\ IsPrefixOf(closed, closed')
          /\ \/ IsPrefixOf(fringe, fringe')
             \/ /\ BlindDequeue \/ IddfsDequeue
                /\ \E i \in 1 .. Len(fringe) :
                     /\ current_state' = fringe[i]
                     /\ IsPrefixOf(RemoveAt(fringe, i), fringe')]_vars

C29_Witness ==
    /\ algo = "GOIDDFS"
    /\ shuffle_grade > 0
    /\ outer_iterations >= 2
    /\ Len(closed) >= 2
    /\ current_state # None
    /\ current_state \notin {closed[i] : i \in 1 .. Len(closed)}

\* evaluator-equal states at two places of a list
HasEqualPair(q) ==
    \E i, j \in 1 .. Len(q) : i < j /\ are_the_same(q[i], q[j])

\* C30: with minimize_accesses off, the base loop applies every applicable
\* operator on each dequeued state, also on one equal to a closed state;
\* when no child is a goal, the fringe becomes the rest of the old fringe
\* followed by all the children and the closed list gets the expanded state
\* at its end, whatever equal states the two lists hold already.
C30_UnconditionalInsert ==
    [][(BlindDequeue /\ ~ minimize_accesses) =>
        LET cur == current_state'
            kids == [k \in 1 .. Len(FilterOps(cur, all_operators)) |->
                       apply_on(FilterOps(cur, all_operators)[k], cur)]
        IN  /\ applied' = applied + Len(kids)
            /\ (\A k \in 1 .. Len(kids) : difference_from_goal(kids[k]) # 0)
                 => /\ pc' = "running"
                    /\ \E i \in 1 .. Len(fringe) :
                          /\ fringe[i] = cur
                          /\ fringe' = RemoveAt(fringe, i) \o kids
                    /\ closed' = Append(closed, cur)]_vars

C30_Witness ==
    /\ ~ minimize_accesses
    /\ pc = "running"
    /\ HasEqualPair(closed)
    /\ HasEqualPair(fringe)
    /\ \E i \in 1 .. Len(closed) :
          /\ closed[i] # current_state
          /\ are_the_same(closed[i], current_state)

\* a chain that starts at the goal and whose every node but the first is
\* the result of an operator applicable on the node before it
IsWalkFromGoal(s) ==
    /\ s # None
    /\ s[1] = goal_state[1]
    /\ \A k \in 2 .. Len(s) :
          /\ s[k].op \in Ops
          /\ s[k - 1].conf \in DOMAIN operators[s[k].op]
          /\ s[k].conf = operators[s[k].op][s[k - 1].conf]

C32_FringeHasNoEqualPair ==
    (algo \in FringeAlgos /\ minimize_accesses) => ~ HasEqualPair(fringe)

C32_Witness ==
    /\ algo \in FringeAlgos
    /\ pc = "running"
    /\ Len(fringe) >= 2
    /\ current_state # None
    /\ ~ is_in_closed(SubSeq(closed, 1, Len(closed) - 1), current_state)
    /\ LET children == apply_all(current_state, all_operators)
       IN  \E k \in 1 .. Len(children), i \in 1 .. Len(fringe) :
              /\ are_the_same(children[k], fringe[i])
              /\ children[k] # fringe[i]

\* the evaluator-distinct states reachable from the initial state
ReachableConfs == ReachableFrom(operators, {Conf(initial_state)})

\* C33: under duplicate suppression no two closed states are evaluator-
\* equal; in the base loop a dequeued state equal to a closed one is not
\* expanded, every other dequeued state is expanded and, unless the run
\* ends with it, closed, so that the number of expansions (the closed
\* states, and the state whose expansion ended the run) never exceeds the
\* number of evaluator-distinct reachable states.
C33_ExpandedAtMostOnce ==
    /\ []((algo \in FringeAlgos /\ minimize_accesses) =>
            /\ ~ HasEqualPair(closed)
            /\ \A i \in 1 .. Len(closed) : Conf(closed[i]) \in ReachableConfs)
    /\ []((algo \in BlindAlgos /\ minimize_accesses) =>
            Len(closed)
              + (IF pc = "succeeded" /\ current_state # None THEN 1 ELSE 0)
                <= Cardinality(ReachableConfs))
    /\ [][(BlindDequeue /\ minimize_accesses) =>
            IF is_in_closed(closed, current_state')
            THEN applied' = applied /\ closed' = closed /\ pc' = pc
            ELSE /\ applied' = applied
                      + Len(FilterOps(current_state', all_operators))
                 /\ \/ pc' = "succeeded" /\ closed' = closed
                    \/ pc' = pc /\ closed' = Append(closed, current_state')
           ]_vars

C33_Witness ==
    /\ algo \in BlindAlgos
    /\ pc = "failed"
    /\ Len(closed) = Cardinality(ReachableConfs)
    /\ Len(closed) >= 3
    /\ applied = MaxEdges

\* C34: in the base loop, when the initial state is not a goal, no state
\* of zero goal-distance is ever in the fringe or in the closed list.
C34_NoGoalStored ==
    (algo \in BlindAlgos /\ ~ init_goal_equality) =>
        /\ \A i \in 1 .. Len(fringe) : difference_from_goal(fringe[i]) # 0
        /\ \A i \in 1 .. Len(closed) : difference_from_goal(closed[i]) # 0

C34_Witness ==
    /\ algo \in BlindAlgos
    /\ pc = "succeeded"
    /\ final_state # initial_state
    /\ Len(closed) >= 1
    /\ applied_operator(final_state) = 2
    /\ can_be_applied(parent_state(final_state), 1)

\* C35: for GOBestFirstSearch and GOAStar, next_from_fringe on a fringe
\* of n >= 1 states removes exactly one state, the one at a 0-based index
\* between 0 and max(0, n - 2), the others keeping their order; for n >= 2
\* that is never the last position of the fringe.
C35_InformedIndexRange ==
    [][(pc' = "next_from_fringe"
          /\ algo \in {"GOBestFirstSearch", "GOAStar"})
        => LET n == Len(fringe)
               top == IF n - 2 > 0 THEN n - 2 ELSE 0
           IN  /\ n >= 1
               /\ Len(fringe') = n - 1
               /\ \E i \in 0 .. top :
                     /\ returned' = fringe[i + 1]
                     /\ fringe' = RemoveAt(fringe, i + 1)
               /\ n >= 2 => fringe'[n - 1] = fringe[n]]_vars

C35_Witness ==
    /\ algo = "GOAStar"
    /\ pc = "next_from_fringe"
    /\ Len(fringe) >= 2
    /\ _further_state_evaluation(fringe[Len(fringe)])
         < _further_state_evaluation(returned)
    /\ _further_state_evaluation(fringe[1])
         > _further_state_evaluation(returned)

\* the states waiting in the fringe or in the deferred list
PendingStates ==
    {fringe[i] : i \in 1 .. Len(fringe)}
        \cup {deeper_nodes[i] : i \in 1 .. Len(deeper_nodes)}

\* C36: when a state at distance zero is reachable, GOIDDFS signals
\* Success in the end, whatever the depth increment: until then some
\* waiting state (in the fringe or deferred) still leads to a goal, so
\* deferral, duplicate suppression and the closed test lose nothing, and
\* every inner pass ends, by Success or with an empty fringe.
C36_IddfsFindsReachableGoal ==
    /\ []((algo = "GOIDDFS" /\ GoalConfs # {}
              /\ pc \in {"ready", "running", "outer"})
            => \E s \in PendingStates :
                  GoalConfs \cap ReachableFrom(operators, {Conf(s)}) # {})
    /\ []((algo = "GOIDDFS" /\ pc = "succeeded")
            => difference_from_goal(final_state) = 0)
    /\ ((algo = "GOIDDFS" /\ pc = "running")
            ~> (pc \in {"outer", "succeeded"}))
    /\ ((algo = "GOIDDFS" /\ GoalConfs # {}) ~> (pc = "succeeded"))

C36_Witness ==
    /\ algo = "GOIDDFS"
    /\ pc = "succeeded"
    /\ depth_increment = 2
    /\ outer_iterations = 2
    /\ Depth(final_state) = 3
    /\ closed # <<>>

\* no operator is applicable on the state
DeadEnd(s) == \A o \in Ops : ~ can_be_applied(s, o)

C38_MembershipByEvaluator ==
    /\ pc = "is_in_fringe" =>
          returned = << \E i \in 1 .. Len(fringe) :
                          Abs(Conf(fringe[i]) - Conf(argument)) = 0 >>
    /\ pc = "is_in_closed" =>
          returned = << \E i \in 1 .. Len(closed) :
                          Abs(Conf(closed[i]) - Conf(argument)) = 0 >>

C38_Witness ==
    /\ pc = "is_in_closed"
    /\ returned = <<TRUE>>
    /\ Len(closed) >= 2
    /\ \A i \in 1 .. Len(closed) : closed[i] # argument
    /\ \E i \in 1 .. Len(closed) :
          /\ Conf(closed[i]) = Conf(argument)
          /\ parent_state(closed[i]) # None
          /\ parent_state(argument) # None
          /\ applied_operator(closed[i]) # applied_operator(argument)

====
